---- MODULE Spec2Model ----
(***************************************************************************)
(* Medication scheduling and compliance logic of dogi-guard.               *)
(*                                                                         *)
(* Time is counted in whole hours.  An instant is the number of hours      *)
(* since the epoch in UTC (a JavaScript Date), a calendar date is a day    *)
(* number (a 'YYYY-MM-DD' string or a PostgreSQL DATE).  The device's      *)
(* time zone is part of the environment: a standard offset and, for a      *)
(* zone that observes daylight saving time, the day the clocks go forward  *)
(* and the day they go back (both at 02:00 local time).                    *)
(***************************************************************************)
EXTENDS Integers, Sequences, FiniteSets, Bags, TLC

VARIABLES
    tz,          \* the device's time zone
    now,         \* the system clock, an instant (new Date() / Date.now())
    target,      \* the Date handed to calculateDDay
    shift,       \* k when target was built as now + k days, else None
    dDay,        \* the last result of calculateDDay
    dArg,        \* the last argument of getDDayStatus
    dStatus,     \* the last result of getDDayStatus
    dColor,      \* the last result of getDDayColor
    records,     \* table medication_records: a bag of rows
    isSignedIn,  \* useAuth().isSignedIn
    error,       \* state.error of useSupabaseDogs
    stats,       \* the last getMedicationStats call: request, input and results
    dbDogs,      \* table dogs: the heartworm schedule of every dog
    dogs,        \* state.dogs of useSupabaseDogs
    ret,         \* what the last recordMedication call of the hook returned
    svc,         \* what the service returned to that call, None when not asked
    call,        \* the latest call of a date function since the clock moved
    earlier,     \* the latest call made before the clock last moved
    mig,         \* the migrateExistingData calls: where each one stands
    cal,         \* state of MedicationCalendar and its submission in progress
    loading,     \* state.loading of useSupabaseDogs
    effect,      \* where the initial-load effect of useSupabaseDogs stands
    creating,    \* the dog a createDog call has inserted and not yet appended
    events,      \* real-time payloads the subscription has not handled yet
    fetched      \* lists refetched by the subscription, not yet handed over

envVars == <<tz, now>>
dateVars == <<target, shift, dDay, dArg, dStatus, dColor>>
tableVars == <<records>>
hookVars == <<isSignedIn, error>>
statsVars == <<stats>>
dogVars == <<dbDogs, dogs, ret, svc>>
calcVars == <<call, earlier>>
migVars == <<mig>>
calVars == <<cal>>
listVars == <<loading, effect, creating, events, fetched>>
vars == <<tz, now, target, shift, dDay, dArg, dStatus, dColor, records,
          isSignedIn, error, stats, dbDogs, dogs, ret, svc, call, earlier,
          mig, cal, loading, effect, creating, events, fetched>>

NULL == "null"

\* An optional value: None, or Some(x) holding x.
None == <<>>
Some(x) == <<x>>
Val(o) == o[1]

HoursPerDay == 24

\* No migrateExistingData call has been made.
MigIdle == mig = <<>>

\* No MedicationCalendar is mounted.
CalIdle == cal = None

\* useSupabaseDogs has finished its initial load; no createDog call and no
\* real-time payload is in progress.
ListIdle ==
    /\ loading = FALSE
    /\ effect = "done"
    /\ creating = None
    /\ events = 0
    /\ fetched = <<>>

----
\* Environment: time zones of the devices the application runs on.

SpringDay == 3    \* clocks go forward at 02:00 local time on this day
FallDay == 40     \* clocks go back at 02:00 local (summer) time on this day

TimeZones ==
    { [name |-> "UTC",              base |-> 0,   dst |-> FALSE],
      [name |-> "Asia/Seoul",       base |-> 9,   dst |-> FALSE],
      [name |-> "America/New_York", base |-> 0-5, dst |-> TRUE],
      [name |-> "Europe/Berlin",    base |-> 1,   dst |-> TRUE] }

\* The UTC instants of the two transitions of zone z.
SpringInstant(z) == HoursPerDay * SpringDay + 2 - z.base
FallInstant(z) == HoursPerDay * FallDay + 2 - (z.base + 1)

\* Offset of local time from UTC at instant t.
OffsetAt(z, t) ==
    IF z.dst /\ SpringInstant(z) <= t /\ t < FallInstant(z)
    THEN z.base + 1 ELSE z.base

\* LocalTime(t) of ECMAScript: the local wall clock reading at instant t.
LocalTime(z, t) == t + OffsetAt(z, t)

\* UTC(t) of ECMAScript: the instant of a local wall clock reading.  A
\* reading that is skipped or repeated by a transition is interpreted with
\* the offset in force before the transition.
UTCOf(z, l) ==
    IF z.dst /\ HoursPerDay * SpringDay + 3 <= l /\ l < HoursPerDay * FallDay + 2
    THEN l - (z.base + 1) ELSE l - z.base

\* Date.prototype.getDate and friends: the local calendar day of an instant.
LocalDay(z, t) == LocalTime(z, t) \div HoursPerDay

\* Date.prototype.setHours(0, 0, 0, 0): midnight of the local calendar day.
StartOfLocalDay(z, t) == UTCOf(z, HoursPerDay * LocalDay(z, t))

\* d.setDate(d.getDate() + n): same local wall clock time, n days on.
AddDaysLocal(z, t, n) == UTCOf(z, LocalTime(z, t) + HoursPerDay * n)

\* Math.ceil(a / b) for b > 0.
Ceil(a, b) == 0 - ((0 - a) \div b)

----
\* JavaScript values.  A number is Some(n), or NaN; a Date holds the time value
\* Some(t), or NaN when it is an Invalid Date.  A call either returns a value
\* or throws.

NaN == None
Return(v) == [threw |-> FALSE, value |-> v]
Throw(e) == [threw |-> TRUE, value |-> e]

\* The calendar of ECMAScript (Gregorian, day 0 = 1970-01-01).
DaysInYear(y) ==
    IF y % 4 # 0 THEN 365
    ELSE IF y % 100 # 0 THEN 366
    ELSE IF y % 400 # 0 THEN 365
    ELSE 366

DayFromYear(y) ==
    365 * (y - 1970) + ((y - 1969) \div 4) - ((y - 1901) \div 100)
        + ((y - 1601) \div 400)

YearFromDay(d) ==
    CHOOSE y \in (1970 + (d \div 366))..(1970 + (d \div 365)) :
        DayFromYear(y) <= d /\ d < DayFromYear(y + 1)

DayWithinYear(d) == d - DayFromYear(YearFromDay(d))

\* The day within the year on which month m (0 = January) begins; entry 13
\* is the length of the year.
MonthStarts(y) ==
    LET leap == DaysInYear(y) - 365
    IN  <<0, 31, 59 + leap, 90 + leap, 120 + leap, 151 + leap, 181 + leap,
          212 + leap, 243 + leap, 273 + leap, 304 + leap, 334 + leap,
          365 + leap>>

MonthFromDay(d) ==
    CHOOSE m \in 0..11 :
        /\ MonthStarts(YearFromDay(d))[m + 1] <= DayWithinYear(d)
        /\ DayWithinYear(d) < MonthStarts(YearFromDay(d))[m + 2]

DateFromDay(d) ==
    DayWithinYear(d) - MonthStarts(YearFromDay(d))[MonthFromDay(d) + 1] + 1

\* The day number of the calendar date y-m-dt, m counted from 1 as it is
\* written in 'YYYY-MM-DD'.
MakeDay(y, m, dt) == DayFromYear(y) + MonthStarts(y)[m] + dt - 1

\* Date.prototype.getFullYear, getMonth and getDate: fields of the local time.
getFullYear(z, t) == YearFromDay(LocalDay(z, t))
getMonth(z, t) == MonthFromDay(LocalDay(z, t))
getDate(z, t) == DateFromDay(LocalDay(z, t))

----
\* utils/dateHelpers

\* calculateAge that compares the days within the year instead of month and
\* day.
calculateAge_DayOfYear(z, clock, birthDate) ==
    LET today == clock
        birth == birthDate
        age == getFullYear(z, today) - getFullYear(z, birth)
    IN  IF DayWithinYear(LocalDay(z, today)) < DayWithinYear(LocalDay(z, birth))
        THEN age - 1
        ELSE age

\* calculateAge with the birthday itself counted as not yet reached (<=).
calculateAge_BirthdayNotReached(z, clock, birthDate) ==
    LET today == clock
        birth == birthDate
        age == getFullYear(z, today) - getFullYear(z, birth)
        monthDiff == getMonth(z, today) - getMonth(z, birth)
    IN  IF monthDiff < 0
           \/ (monthDiff = 0 /\ getDate(z, today) <= getDate(z, birth))
        THEN age - 1
        ELSE age

calculateAge(z, clock, birthDate) ==
    LET today == clock
        birth == birthDate
        age == getFullYear(z, today) - getFullYear(z, birth)
        monthDiff == getMonth(z, today) - getMonth(z, birth)
    IN  IF monthDiff < 0
           \/ (monthDiff = 0 /\ getDate(z, today) < getDate(z, birth))
        THEN age - 1
        ELSE age

\* calculateDDay without today.setHours(0, 0, 0, 0).
calculateDDay_TodayNotStripped(z, clock, targetDate) ==
    LET today == clock
        tgt == StartOfLocalDay(z, targetDate)
        diffTime == tgt - today
    IN  Ceil(diffTime, HoursPerDay)

calculateDDay(z, clock, targetDate) ==
    LET today == StartOfLocalDay(z, clock)
        tgt == StartOfLocalDay(z, targetDate)
        diffTime == tgt - today
    IN  Ceil(diffTime, HoursPerDay)

\* getDDayStatus with the urgent tier closed one day early (d < 7).
getDDayStatus_StrictUrgent(d) ==
    IF d <= 0 THEN "overdue"
    ELSE IF d < 7 THEN "urgent"
    ELSE IF d <= 14 THEN "soon"
    ELSE "safe"

getDDayStatus(d) ==
    IF d <= 0 THEN "overdue"
    ELSE IF d <= 7 THEN "urgent"
    ELSE IF d <= 14 THEN "soon"
    ELSE "safe"

\* getDDayColor with the yellow tier closed one day early (d < 14).
getDDayColor_StrictSoon(d) ==
    IF d <= 0 THEN "#FF3B30"
    ELSE IF d <= 7 THEN "#FF9500"
    ELSE IF d < 14 THEN "#FFCC00"
    ELSE "#34C759"

getDDayColor(d) ==
    IF d <= 0 THEN "#FF3B30"
    ELSE IF d <= 7 THEN "#FF9500"
    ELSE IF d <= 14 THEN "#FFCC00"
    ELSE "#34C759"

----
\* Bounds of the date specification.

MaxOffset == 16                       \* offsets handed to getDDayStatus
MaxShift == 2                         \* whole-day shifts of a target
ClockDays == {2, 3, 4, 12, 39, 40, 41}  \* days the clock and the targets fall on
ClockHours == {0, 3, 12, 23}          \* UTC hours of the day that are tried

Instants == { HoursPerDay * d + h : d \in ClockDays, h \in ClockHours }

InitDate ==
    /\ tz \in TimeZones
    /\ now \in Instants
    /\ target \in Instants
    /\ shift = None
    /\ dDay = None
    /\ dArg = None
    /\ dStatus = NULL
    /\ dColor = NULL
    /\ records = EmptyBag
    /\ isSignedIn = TRUE
    /\ error = NULL
    /\ stats = None
    /\ dbDogs = <<>>
    /\ dogs = <<>>
    /\ ret = None
    /\ svc = None
    /\ call = None
    /\ earlier = None
    /\ MigIdle
    /\ CalIdle
    /\ ListIdle

\* MedicationTracker renders the badge of the displayed date:
\*   const dDay = calculateDDay(date); const status = getDDayStatus(dDay);
\*   const color = getDDayColor(dDay)
ShowTracker ==
    /\ dDay' = Some(calculateDDay(tz, now, target))
    /\ dArg' = dDay'
    /\ dStatus' = getDDayStatus(Val(dDay'))
    /\ dColor' = getDDayColor(Val(dDay'))
    /\ UNCHANGED <<tz, now, target, shift, tableVars,
                   migVars, calVars, listVars,
                   hookVars, statsVars, dogVars,
                     calcVars>>

\* getDDayStatus and getDDayColor applied to any integer offset.
GetDDayStatus ==
    \E d \in (0 - MaxOffset)..MaxOffset :
        /\ dArg' = Some(d)
        /\ dStatus' = getDDayStatus(d)
        /\ dColor' = getDDayColor(d)
        /\ dDay' = None
        /\ UNCHANGED <<tz, now, target, shift, tableVars,
                       migVars, calVars, listVars,
                       hookVars, statsVars, dogVars,
                     calcVars>>

\* Another date is displayed.
PickTarget ==
    \E t \in Instants :
        /\ target' = t
        /\ shift' = None
        /\ dDay' = None
        /\ UNCHANGED <<tz, now, dArg, dStatus, dColor, tableVars,
                       migVars, calVars, listVars,
                       hookVars, statsVars,
                     dogVars, calcVars>>

\* The displayed date is the current instant moved by k whole days:
\*   d = new Date(); d.setDate(d.getDate() + k)
ShiftTarget ==
    \E k \in (0 - MaxShift)..MaxShift :
        /\ target' = AddDaysLocal(tz, now, k)
        /\ shift' = Some(k)
        /\ dDay' = None
        /\ UNCHANGED <<tz, now, dArg, dStatus, dColor, tableVars,
                       migVars, calVars, listVars,
                       hookVars, statsVars,
                     dogVars, calcVars>>

\* The system clock advances.
Tick ==
    \E t \in Instants :
        /\ t > now
        /\ now' = t
        /\ shift' = None
        /\ dDay' = None
        /\ UNCHANGED <<tz, target, dArg, dStatus, dColor, tableVars,
                       migVars, calVars, listVars,
                       hookVars,
                     statsVars, dogVars, calcVars>>

NextDate == ShowTracker \/ GetDDayStatus \/ PickTarget \/ ShiftTarget \/ Tick

SpecDate == InitDate /\ [][NextDate]_vars

----
\* Claims about the D-Day calculator.

\* The number of whole calendar days from the local day of a to that of b.
CalendarDays(z, a, b) == LocalDay(z, b) - LocalDay(z, a)

\* C7: calculateDDay depends only on the calendar days of its target and of
\* now, and its result is the number of whole calendar days from today to the
\* target day.
C7_DDayIsCalendarDays ==
    dDay # None =>
        /\ Val(dDay) = CalendarDays(tz, now, target)
        /\ \A n2, t2 \in Instants :
              (LocalDay(tz, n2) = LocalDay(tz, now)
                 /\ LocalDay(tz, t2) = LocalDay(tz, target))
              => calculateDDay(tz, n2, t2) = Val(dDay)

\* C8: the offset of the date d + k days measured from today = d is exactly k,
\* for positive, zero and negative k.
C8_ShiftRoundTrip ==
    (dDay # None /\ shift # None) => Val(dDay) = Val(shift)

\* C9: getDDayStatus maps an offset <= 0 to overdue, 1..7 to urgent, 8..14 to
\* soon and >= 15 to safe (0, 7, 8, 14, 15 give overdue, urgent, soon, soon,
\* safe; 9 gives soon).
C9_StatusThresholds ==
    dArg # None =>
        /\ Val(dArg) <= 0 <=> dStatus = "overdue"
        /\ Val(dArg) \in 1..7 <=> dStatus = "urgent"
        /\ Val(dArg) \in 8..14 <=> dStatus = "soon"
        /\ Val(dArg) >= 15 <=> dStatus = "safe"
        /\ Val(dArg) = 9 => dStatus = "soon"

\* The badge of a date nine calendar days ahead has been rendered as soon.
C9_Witness ==
    /\ dDay = Some(9)
    /\ dArg = Some(9)
    /\ dStatus = "soon"
    /\ CalendarDays(tz, now, target) = 9

\* C10: when the two midnights are not a whole number of days apart, the
\* quotient is rounded away from zero: a target k calendar days ahead yields at
\* least k and a target k calendar days back yields at most -k.
C10_RoundsAwayFromZero ==
    LET k == CalendarDays(tz, now, target)
        diffTime == StartOfLocalDay(tz, target) - StartOfLocalDay(tz, now)
    IN  (dDay # None /\ diffTime % HoursPerDay # 0) =>
            /\ k > 0 => Val(dDay) >= k
            /\ k < 0 => Val(dDay) <= k

\* The fixed display colour of a tier.
ColourOfTier(tier) ==
    CASE tier = "overdue" -> "#FF3B30"
      [] tier = "urgent" -> "#FF9500"
      [] tier = "soon" -> "#FFCC00"
      [] tier = "safe" -> "#34C759"

\* C18: for every integer offset the colour returned by getDDayColor is the
\* fixed colour of the tier returned by getDDayStatus for the same offset
\* (overdue red #FF3B30, urgent orange #FF9500, soon yellow #FFCC00, safe green
\* #34C759).
C18_ColourOfSameTier ==
    dArg # None => dColor = ColourOfTier(dStatus)

\* The badge of a date eight calendar days ahead has been rendered yellow, the
\* first offset of the yellow tier.
C18_Witness ==
    /\ dDay = Some(8)
    /\ dArg = Some(8)
    /\ dStatus = "soon"
    /\ dColor = "#FFCC00"
    /\ CalendarDays(tz, now, target) = 8

----
\* Table medication_records (database/updated-schema.sql).  A row carries the
\* columns the application computes with; scheduled_date is None when NULL.
\* The table is a bag: two doses may agree on every column.

Row(dog, name, recorded, scheduled, hw) ==
    [dog_id |-> dog, medication_name |-> name, recorded_date |-> recorded,
     scheduled_date |-> scheduled, is_heartworm_medication |-> hw]

\* INSERT INTO medication_records
InsertRow(table, r) == table (+) SetToBag({r})

\* The rows of a table that belong to the set S (a WHERE condition).
Restrict(b, S) == [r \in S \cap DOMAIN b |-> b[r]]

\* COUNT(expr), S being the rows for which expr is not NULL.
SqlCount(b, S) == BagCardinality(Restrict(b, S))

\* new Date(...).toISOString().split('T')[0]: the UTC calendar date.
ToISODate(t) == t \div HoursPerDay

----
\* get_medication_stats (database/updated-schema.sql)

\* CASE WHEN mr.scheduled_date IS NOT NULL
\*       AND mr.recorded_date = mr.scheduled_date THEN 1 END
OnTimeCase(r) ==
    IF r.scheduled_date # None /\ r.recorded_date = Val(r.scheduled_date)
    THEN Some(1) ELSE None

\* CASE WHEN mr.scheduled_date IS NOT NULL
\*       AND mr.recorded_date > mr.scheduled_date THEN 1 END
DelayedCase(r) ==
    IF r.scheduled_date # None /\ r.recorded_date > Val(r.scheduled_date)
    THEN Some(1) ELSE None

\* CASE WHEN mr.scheduled_date IS NOT NULL THEN 1 END
ScheduledCase(r) == IF r.scheduled_date # None THEN Some(1) ELSE None

\* The recorded_date values of a partition in ORDER BY mr.recorded_date order.
RECURSIVE DatesAscending(_, _)
DatesAscending(b, days) ==
    IF days = {} THEN <<>>
    ELSE LET d == CHOOSE x \in days : \A y \in days : x <= y
             n == BagCardinality(Restrict(b, {r \in DOMAIN b : r.recorded_date = d}))
         IN  [i \in 1..n |-> d] \o DatesAscending(b, days \ {d})

\* mr.recorded_date - LAG(mr.recorded_date) OVER (...) for every row of the
\* partition; None for the first row, whose LAG is NULL.
LagDifferences(dates) ==
    [i \in 1..Len(dates) |->
        IF i = 1 THEN None ELSE Some(dates[i] - dates[i - 1])]

RECURSIVE SumOfValues(_)
SumOfValues(q) ==
    IF q = <<>> THEN 0
    ELSE (IF Head(q) = None THEN 0 ELSE Val(Head(q))) + SumOfValues(Tail(q))

\* AVG(expr): the mean of the values that are not NULL, NULL when there is none.
\* A NUMERIC is kept as an exact fraction.
SqlAvg(q) ==
    LET n == Cardinality({i \in 1..Len(q) : q[i] # None})
    IN  IF n = 0 THEN None ELSE Some([num |-> SumOfValues(q), den |-> n])

\* The compliance_rate column.
ComplianceCase(g) ==
    LET scheduled == {r \in DOMAIN g : ScheduledCase(r) # None}
        onTime == {r \in DOMAIN g : OnTimeCase(r) # None}
    IN  IF SqlCount(g, scheduled) > 0
        THEN Some([num |-> SqlCount(g, onTime) * 100,
                   den |-> SqlCount(g, scheduled)])
        ELSE None

\* The select list evaluated on one group of GROUP BY mr.medication_name.
StatsRow(g, name) ==
    [medication_name |-> name,
     total_doses |-> BagCardinality(g),
     on_time_doses |-> SqlCount(g, {r \in DOMAIN g : OnTimeCase(r) # None}),
     delayed_doses |-> SqlCount(g, {r \in DOMAIN g : DelayedCase(r) # None}),
     average_interval_days |->
        SqlAvg(LagDifferences(
            DatesAscending(g, {r.recorded_date : r \in DOMAIN g}))),
     compliance_rate |-> ComplianceCase(g)]

\* FROM medication_records mr
\* WHERE mr.dog_id = p_dog_id AND mr.recorded_date >= p_start_date
StatsInput(table, p_dog_id, p_start_date) ==
    Restrict(table, {r \in DOMAIN table : r.dog_id = p_dog_id
                                             /\ r.recorded_date >= p_start_date})

\* One row per group of GROUP BY mr.medication_name.
QueryRows(input) ==
    { StatsRow(Restrict(input, {r \in DOMAIN input : r.medication_name = name}),
               name) :
        name \in {r.medication_name : r \in DOMAIN input} }

\* The aggregate calls of the select list, and whether the argument of each
\* contains a window function call (... OVER (...)).
SelectAggregates ==
    { [call |-> "COUNT(*)",                         line |-> 383, over |-> FALSE],
      [call |-> "COUNT(on time CASE)",              line |-> 384, over |-> FALSE],
      [call |-> "COUNT(delayed CASE)",              line |-> 385, over |-> FALSE],
      [call |-> "AVG(CASE WHEN LAG(..) OVER (..))", line |-> 386, over |-> TRUE],
      [call |-> "COUNT(scheduled CASE)",            line |-> 394, over |-> FALSE],
      [call |-> "COUNT(on time CASE)",              line |-> 395, over |-> FALSE],
      [call |-> "COUNT(scheduled CASE)",            line |-> 396, over |-> FALSE] }

\* PostgreSQL evaluates window functions after the aggregates of a query
\* level and rejects, when it analyses the query, an aggregate whose argument
\* contains a window function call.
QueryIsValid == \A a \in SelectAggregates : ~a.over

WindowInAggregate == "aggregate function calls cannot contain window function calls"

\* RETURN QUERY SELECT ...: the rows, or the error raised by the query.
get_medication_stats(table, p_dog_id, p_start_date) ==
    IF QueryIsValid
    THEN [data |-> Some(QueryRows(StatsInput(table, p_dog_id, p_start_date))),
          error |-> NULL]
    ELSE [data |-> None, error |-> WindowInAggregate]

----
\* MedicationRecordService.getMedicationStats

DaysPerYear == 365

\* StatsStart without the default window: every date is on or after the start.
StatsStart_NoWindow(clock, startDate) ==
    IF startDate # None THEN Val(startDate) ELSE 0

\* startDate || new Date(Date.now() - 365 * 24 * 60 * 60 * 1000)
\*                 .toISOString().split('T')[0]
StatsStart(clock, startDate) ==
    IF startDate # None THEN Val(startDate)
    ELSE ToISODate(clock - DaysPerYear * HoursPerDay)

ServiceGetMedicationStats(table, clock, dogId, startDate) ==
    LET r == get_medication_stats(table, dogId, StatsStart(clock, startDate))
    IN  IF r.error # NULL THEN [data |-> None, error |-> r.error]
        ELSE [data |-> r.data, error |-> NULL]

----
\* Next-dose projection and the dogs table.

HeartwormIntervalDays == 30

\* new Date('YYYY-MM-DD'): midnight UTC of the calendar date.
ParseISODate(d) == HoursPerDay * d

\* The strings handed to new Date(...): a date 'YYYY-MM-DD', a date and time
\* in UTC 'YYYY-MM-DDTHH:00:00Z', a date and time without a zone
\* 'YYYY-MM-DDTHH:00:00', and a string that is no date at all.
DateOnly(d) == [kind |-> "date", day |-> d, hour |-> 0]
UtcDateTime(d, h) == [kind |-> "utc", day |-> d, hour |-> h]
LocalDateTime(d, h) == [kind |-> "local", day |-> d, hour |-> h]
NotADate == [kind |-> "none", day |-> 0, hour |-> 0]

\* new Date(string): the time value Date.parse gives.  A date alone is read as
\* UTC, a date and time without a zone as local time; anything else is NaN.
NewDate(z, str) ==
    CASE str.kind = "date" -> Some(ParseISODate(str.day))
      [] str.kind = "utc" -> Some(ParseISODate(str.day) + str.hour)
      [] str.kind = "local" -> Some(UTCOf(z, HoursPerDay * str.day + str.hour))
      [] OTHER -> NaN

\* calculateNextDoseDate that adds the days to the UTC calendar date.
calculateNextDoseDate_UTC(z, lastDoseDate, intervalDays) ==
    LET lastDate == NewDate(z, lastDoseDate)
    IN  IF lastDate = NaN \/ intervalDays = NaN
        THEN Throw("RangeError: Invalid time value")
        ELSE Return(ToISODate(Val(lastDate)) + Val(intervalDays))

\* MedicationRecordService.calculateNextDoseDate(lastDoseDate, intervalDays).
\* setDate of an Invalid Date, or with NaN, leaves an Invalid Date, and
\* toISOString of an Invalid Date throws a RangeError.
calculateNextDoseDate(z, lastDoseDate, intervalDays) ==
    LET lastDate == NewDate(z, lastDoseDate)
        nextDate ==
            IF lastDate = NaN \/ intervalDays = NaN THEN NaN
            ELSE Some(AddDaysLocal(z, Val(lastDate), Val(intervalDays)))
    IN  IF nextDate = NaN
        THEN Throw("RangeError: Invalid time value")
        ELSE Return(ToISODate(Val(nextDate)))

\* calculateNextHeartworkDate that adds 30 days of 24 hours to the time value.
calculateNextHeartworkDate_Elapsed(z, lastDate) ==
    lastDate + HoursPerDay * HeartwormIntervalDays

\* utils/validation calculateNextHeartworkDate(lastDate)
calculateNextHeartworkDate(z, lastDate) ==
    AddDaysLocal(z, lastDate, HeartwormIntervalDays)

\* A row of table dogs as the dog form submits it: the last dose was picked
\* at noon UTC of the given day and the next date was filled in by the form.
FormDog(z, id, lastDay) ==
    LET last == ParseISODate(lastDay) + 12
    IN  [id |-> id,
         lastHeartworkMedicationDate |-> last,
         nextHeartworkMedicationDate |-> calculateNextHeartworkDate(z, last)]

\* SupabaseDogService.updateDog with { nextHeartworkMedicationDate }: only
\* next_heartwork_medication_date of the row is written.
UpdateNextDate(table, id, next) ==
    [table EXCEPT ![id].nextHeartworkMedicationDate = next]

\* prev.map(dog => dog.id === dogId ? updatedDog : dog)
ReplaceDog(list, updatedDog) ==
    [i \in 1..Len(list) |->
        IF list[i].id = updatedDog.id THEN updatedDog ELSE list[i]]

----
\* Bounds of the statistics specification.

MaxRecords == 3                         \* rows in medication_records
DogIds == {"dog1", "dog2"}
HeartwormName == "Heartgard"            \* dog.heartworkMedicationName
MedicationNames == {HeartwormName, "heartgard "}
StatsToday == 730                       \* the day the statistics are asked for
RecordedDays == {364, 365, 400}         \* recorded_date values
ScheduledDays == {365, 396}             \* scheduled_date values
StartDays == {364}                      \* explicit startDate arguments

InitStats ==
    /\ tz \in {z \in TimeZones : z.name = "UTC"}
    /\ now = HoursPerDay * StatsToday + 12
    /\ target = now
    /\ shift = None
    /\ dDay = None
    /\ dArg = None
    /\ dStatus = NULL
    /\ dColor = NULL
    /\ records = EmptyBag
    /\ isSignedIn \in BOOLEAN
    /\ error = NULL
    /\ stats = None
    /\ dbDogs = [id \in DogIds |-> FormDog(tz, id, StatsToday)]
    /\ dogs = <<>>
    /\ ret = None
    /\ svc = None
    /\ call = None
    /\ earlier = None
    /\ MigIdle
    /\ CalIdle
    /\ ListIdle

\* MedicationRecordService.recordMedication: the row is inserted as given.
\* Statistics fetched before belong to the table as it was and are dropped.
ServiceRecordMedication ==
    \E dog \in DogIds, name \in MedicationNames, recorded \in RecordedDays,
       scheduled \in {None} \cup {Some(d) : d \in ScheduledDays} :
        /\ BagCardinality(records) < MaxRecords
        /\ records' = InsertRow(records,
               Row(dog, name, recorded, scheduled, name = HeartwormName))
        /\ stats' = None
        /\ UNCHANGED <<envVars, dateVars, migVars, calVars, listVars,
                       hookVars, dogVars, calcVars>>

\* useSupabaseDogs.getMedicationStats(dogId, startDate?)
GetMedicationStats ==
    \E dog \in DogIds, startDate \in {None} \cup {Some(d) : d \in StartDays} :
        IF ~isSignedIn
        THEN /\ stats' = Some([dog |-> dog, startDate |-> startDate,
                                called |-> FALSE, input |-> EmptyBag,
                                out |-> [data |-> None, error |-> NULL],
                                ret |-> {}])
             /\ UNCHANGED <<envVars, dateVars, migVars, calVars, listVars,
                            tableVars, hookVars, dogVars,
                            calcVars>>
        ELSE LET out == ServiceGetMedicationStats(records, now, dog, startDate)
             IN  /\ stats' = Some([dog |-> dog, startDate |-> startDate,
                                    called |-> TRUE,
                                    input |-> StatsInput(records, dog,
                                                  StatsStart(now, startDate)),
                                    out |-> out,
                                    ret |-> IF out.error # NULL \/ out.data = None
                                            THEN {} ELSE Val(out.data)])
                 /\ error' = out.error
                 /\ UNCHANGED <<envVars, dateVars, migVars, calVars, listVars,
                                tableVars, isSignedIn, dogVars,
                                calcVars>>

NextStats == ServiceRecordMedication \/ GetMedicationStats

SpecStats == InitStats /\ [][NextStats]_vars

----
\* Claims about the statistics operation.

\* The medication names present in a bag of rows.
NamesOf(b) == {r.medication_name : r \in DOMAIN b}

\* The rows of a bag that carry exactly the given name.
GroupOf(b, name) == Restrict(b, {r \in DOMAIN b : r.medication_name = name})

\* The number of rows of a bag that have a scheduled_date.
ScheduledIn(b) ==
    BagCardinality(Restrict(b, {r \in DOMAIN b : r.scheduled_date # None}))

\* The number of rows of a bag given exactly on their scheduled_date.
OnTimeIn(b) ==
    BagCardinality(Restrict(b, {r \in DOMAIN b :
        r.scheduled_date # None /\ Val(r.scheduled_date) = r.recorded_date}))

\* The number of rows of a bag given after their scheduled_date.
DelayedIn(b) ==
    BagCardinality(Restrict(b, {r \in DOMAIN b :
        r.scheduled_date # None /\ Val(r.scheduled_date) < r.recorded_date}))

\* A statistics call reached the database.
StatsCalled == stats # None /\ Val(stats).called

C3_ComplianceRate ==
    StatsCalled =>
        \A name \in NamesOf(Val(stats).input) :
            /\ Val(stats).out.error = NULL
            /\ \E row \in Val(stats).ret :
                  LET g == GroupOf(Val(stats).input, name)
                  IN  /\ row.medication_name = name
                      /\ ScheduledIn(g) = 0 => row.compliance_rate = None
                      /\ ScheduledIn(g) > 0 =>
                            /\ row.compliance_rate # None
                            /\ Val(row.compliance_rate).num * ScheduledIn(g)
                                 = OnTimeIn(g) * 100
                                     * Val(row.compliance_rate).den

\* The earliest and the latest recorded_date of a non-empty bag.
FirstDate(b) ==
    CHOOSE d \in {r.recorded_date : r \in DOMAIN b} :
        \A r \in DOMAIN b : d <= r.recorded_date
LastDate(b) ==
    CHOOSE d \in {r.recorded_date : r \in DOMAIN b} :
        \A r \in DOMAIN b : d >= r.recorded_date

\* C4: for every medication group, average_interval_days is the mean of the
\* day differences between consecutive records in ascending recorded_date
\* order (the span from the first to the last dose divided by the number of
\* intervals), and null when the group has fewer than two records.
C4_AverageInterval ==
    StatsCalled =>
        \A name \in NamesOf(Val(stats).input) :
            \E row \in Val(stats).ret :
                LET g == GroupOf(Val(stats).input, name)
                    n == BagCardinality(g)
                IN  /\ row.medication_name = name
                    /\ n < 2 => row.average_interval_days = None
                    /\ n >= 2 =>
                          /\ row.average_interval_days # None
                          /\ Val(row.average_interval_days).num * (n - 1)
                               = (LastDate(g) - FirstDate(g))
                                   * Val(row.average_interval_days).den

RECURSIVE TotalDoses(_)
TotalDoses(rows) ==
    IF rows = {} THEN 0
    ELSE LET row == CHOOSE x \in rows : TRUE
         IN  row.total_doses + TotalDoses(rows \ {row})

\* C5: the statistics operation returns exactly one row per distinct
\* medication_name of its input, names compared as exact strings, each with
\* total_doses the number of input records of that name, so that the
\* total_doses sum to the number of input records.
C5_OneRowPerName ==
    StatsCalled =>
        /\ \A name \in NamesOf(Val(stats).input) :
              \E row \in Val(stats).ret :
                /\ row.medication_name = name
                /\ row.total_doses
                     = BagCardinality(GroupOf(Val(stats).input, name))
                /\ \A other \in Val(stats).ret :
                      other.medication_name = name => other = row
        /\ \A row \in Val(stats).ret :
              row.medication_name \in NamesOf(Val(stats).input)
        /\ TotalDoses(Val(stats).ret) = BagCardinality(Val(stats).input)

\* C13: the statistics operation has no error outcome for an empty record
\* set: when the dog has no dose records in scope, the result is the empty
\* list with a null error, not an error value and not a row of zeros.
C13_EmptyInputEmptyResult ==
    (StatsCalled /\ Val(stats).input = EmptyBag) =>
        /\ Val(stats).ret = {}
        /\ Val(stats).out.error = NULL
        /\ error = NULL

\* A statistics call without an explicit start date reached the database.
StatsCalledWithoutStart == StatsCalled /\ Val(stats).startDate = None

\* All rows of a dog, whatever their recorded_date.
RecordsOfDog(table, dog) ==
    Restrict(table, {r \in DOMAIN table : r.dog_id = dog})

----
\* Bounds of the hook specification.

FirstLastDay == 6                 \* the last-dose day entered in the dog form
DoseDays == {2, 6, 12}            \* recorded_date values of the calendar
HookToday == 13                   \* the day the doses are recorded on
OtherMedication == "NexGard"      \* a medication that is not the heartworm one

InitialDogs(z) == [id \in DogIds |-> FormDog(z, id, FirstLastDay)]

\* The dogs have been created with the form and loaded by the hook.
Init ==
    /\ tz \in TimeZones
    /\ now = HoursPerDay * HookToday + 12
    /\ target = now
    /\ shift = None
    /\ dDay = None
    /\ dArg = None
    /\ dStatus = NULL
    /\ dColor = NULL
    /\ records = EmptyBag
    /\ isSignedIn \in BOOLEAN
    /\ error = NULL
    /\ stats = None
    /\ dbDogs = InitialDogs(tz)
    /\ dogs \in { <<dbDogs[a], dbDogs[b]>> : a, b \in DogIds }
                 \ { <<dbDogs[a], dbDogs[a]>> : a \in DogIds }
    /\ ret = None
    /\ svc = None
    /\ call = None
    /\ earlier = None
    /\ MigIdle
    /\ CalIdle
    /\ ListIdle

\* What the insert of MedicationRecordService.recordMedication comes to: the
\* row is stored, the database rejects it with a message, the response
\* carries an error without a message, or the request throws.
InsertOutcomes == {"inserted", "rejected", "rejected without message", "threw"}

\* MedicationRecordService.recordMedication(input): { data, error }.
ServiceRecordResult(outcome, row) ==
    CASE outcome = "inserted" -> [data |-> Some(row), error |-> NULL]
      [] outcome = "rejected" ->
            [data |-> None, error |-> "new row violates row-level security policy"]
      [] outcome = "rejected without message" -> [data |-> None, error |-> ""]
      [] outcome = "threw" ->
            [data |-> None, error |-> "Failed to record medication"]

\* if (error): null and the empty string are both falsy.
Truthy(str) == str # NULL /\ str # ""

\* IsHeartwormDose that takes every stored record for a heartworm dose.
IsHeartwormDose_Always(data) == data # None

\* data?.is_heartworm_medication
IsHeartwormDose(data) == data # None /\ Val(data).is_heartworm_medication

\* useSupabaseDogs.recordMedication(input), with updateNextDoseDate inlined.
\* outcome: what the insert comes to; updated: whether
\* SupabaseDogService.updateDog succeeds.
HookRecordMedication(dog, name, recorded, outcome, updated) ==
        LET input == Row(dog, name, recorded, None, name = HeartwormName)
            res == ServiceRecordResult(outcome, input)
            nextDoseDate ==
                calculateNextDoseDate(tz, DateOnly(Val(res.data).recorded_date),
                                      Some(HeartwormIntervalDays))
            newDb == UpdateNextDate(dbDogs, Val(res.data).dog_id,
                                    ParseISODate(nextDoseDate.value))
        IN  IF ~isSignedIn
            THEN /\ ret' = None
                 /\ svc' = None
                 /\ UNCHANGED <<records, error, dbDogs, dogs>>
            ELSE /\ svc' = Some(res)
                 /\ IF res.data # None
                    THEN /\ BagCardinality(records) < MaxRecords
                         /\ records' = InsertRow(records, Val(res.data))
                    ELSE UNCHANGED records
                 /\ IF Truthy(res.error)
                    THEN /\ error' = res.error
                         /\ ret' = None
                         /\ UNCHANGED <<dbDogs, dogs>>
                    ELSE IF ~IsHeartwormDose(res.data)
                    THEN /\ error' = NULL
                         /\ ret' = res.data
                         /\ UNCHANGED <<dbDogs, dogs>>
                    ELSE IF nextDoseDate.threw
                    THEN /\ error' = "Failed to record medication"
                         /\ ret' = None
                         /\ UNCHANGED <<dbDogs, dogs>>
                    ELSE IF updated
                    THEN /\ dbDogs' = newDb
                         /\ dogs' = ReplaceDog(dogs, newDb[Val(res.data).dog_id])
                         /\ error' = NULL
                         /\ ret' = res.data
                    ELSE /\ error' = "Failed to update next dose date"
                         /\ ret' = res.data
                         /\ UNCHANGED <<dbDogs, dogs>>

\* A recordMedication call of the hook made by any screen.
RecordMedication ==
    \E dog \in DogIds, name \in {HeartwormName, OtherMedication},
       recorded \in DoseDays, outcome \in InsertOutcomes, updated \in BOOLEAN :
        /\ HookRecordMedication(dog, name, recorded, outcome, updated)
        /\ UNCHANGED <<envVars, dateVars, migVars, calVars, listVars,
                       isSignedIn, statsVars, calcVars>>

Next == RecordMedication

Spec == Init /\ [][Next]_vars

----
\* Claims about the dog's schedule.

\* The calendar date (UTC) a dog's next dose is due is 30 days after the
\* calendar date of its last dose.
DueThirtyDaysAfterLast(d) ==
    ToISODate(d.nextHeartworkMedicationDate)
        = ToISODate(d.lastHeartworkMedicationDate) + HeartwormIntervalDays

\* C1: after any sequence of dose recordings through the hook's
\* recordMedication, every dog, as persisted and as held by the hook, has
\* nextHeartworkMedicationDate = lastHeartworkMedicationDate + 30 days.
C1_NextIsLastPlusThirty ==
    /\ \A id \in DOMAIN dbDogs : DueThirtyDaysAfterLast(dbDogs[id])
    /\ \A i \in 1..Len(dogs) : DueThirtyDaysAfterLast(dogs[i])

\* C19: recording a dose whose stored record has is_heartworm_medication =
\* false leaves every dog's schedule unchanged: neither the persisted nor the
\* locally held lastHeartworkMedicationDate / nextHeartworkMedicationDate of
\* any dog changes.
C19_OtherDoseKeepsSchedules ==
    [][(/\ svc' # None
        /\ Val(svc').data # None
        /\ ~Val(Val(svc').data).is_heartworm_medication
        /\ records' # records)
       => (dbDogs' = dbDogs /\ dogs' = dogs)]_vars

\* A dose that is not the heartworm medication was stored and returned after
\* a heartworm dose had moved a dog's next date.
C19_Witness ==
    /\ svc # None
    /\ Val(svc).data # None
    /\ ~Val(Val(svc).data).is_heartworm_medication
    /\ ret = Val(svc).data
    /\ Val(ret) \in DOMAIN records
    /\ dbDogs # InitialDogs(tz)

\* C20: when the user is not signed in, or when the insert of the medication
\* record returns an error or throws, the hook's recordMedication returns null
\* and changes no dog: the persisted dogs and the local dogs list are left as
\* they were; in the error case the hook's error field is set to a non-null
\* message.
C20_FailureChangesNoDog ==
    [][/\ ~isSignedIn =>
             /\ ret' = None
             /\ UNCHANGED <<records, dbDogs, dogs, error>>
       /\ (svc' # None /\ Val(svc').data = None) =>
             /\ ret' = None
             /\ UNCHANGED <<records, dbDogs, dogs>>
             /\ Truthy(error')]_vars

\* calculate_next_dose_date (database/updated-schema.sql): the most recent
\* recorded_date of the medication plus the interval, CURRENT_DATE when the
\* dog has no record of it.
calculate_next_dose_date(table, p_dog_id, p_medication_name, p_interval_days, current_date) ==
    LET dates == { r.recorded_date : r \in
                     { x \in DOMAIN table :
                         /\ x.dog_id = p_dog_id
                         /\ x.medication_name = p_medication_name } }
        last_dose_date == CHOOSE d \in dates : \A e \in dates : e <= d
    IN  IF dates # {}
        THEN last_dose_date + p_interval_days
        ELSE current_date

\* The dog has a record of its heartworm medication.
HasPrimaryDose(id) ==
    \E r \in DOMAIN records :
        r.dog_id = id /\ r.medication_name = HeartwormName

\* C21: after any sequence of primary-dose recordings in any order of dates
\* (back-filling an older date after a newer one included), the dog's stored
\* next-due date equals the most recent recorded_date among its
\* primary-medication records plus 30 days: the client-side update agrees
\* with the database function calculate_next_dose_date.
C21_NextDueFollowsLatestDose ==
    \A id \in DOMAIN dbDogs :
        HasPrimaryDose(id) =>
            ToISODate(dbDogs[id].nextHeartworkMedicationDate)
                = calculate_next_dose_date(records, id, HeartwormName,
                      HeartwormIntervalDays, ToISODate(now))

----
\* Calls of the date functions: utils/dateHelpers, calculateNextDoseDate and
\* calculateNextHeartworkDate, each applied to arguments of its declared type
\* while the clock moves on between calls.

\* Clock readings: two on the same New York day before the clocks go forward,
\* and days around the birthdays below.
CalcClocks ==
    { HoursPerDay * 2 + 12,
      HoursPerDay * 3 + 4,
      HoursPerDay * MakeDay(2023, 3, 1) + 12,
      HoursPerDay * MakeDay(2024, 2, 29) + 12,
      HoursPerDay * MakeDay(2025, 6, 15) + 3 }

\* Date arguments; NaN is an Invalid Date.
BirthDates ==
    { Some(HoursPerDay * MakeDay(2020, 2, 29) + 12),
      Some(HoursPerDay * MakeDay(2020, 3, 1) + 12),
      Some(HoursPerDay * MakeDay(2020, 6, 15) + 12),
      Some(HoursPerDay * MakeDay(2025, 6, 15) + 3),
      NaN }
TargetDates ==
    { Some(HoursPerDay * 2 + 20), Some(HoursPerDay * 33 + 12),
      Some(HoursPerDay * MakeDay(2025, 6, 16) + 1), NaN }
LastDates ==
    { HoursPerDay * 2 + 12,
      HoursPerDay * (SpringDay - HeartwormIntervalDays) + 1,
      HoursPerDay * (SpringDay - HeartwormIntervalDays) + 7,
      HoursPerDay * MakeDay(2025, 1, 15) + 9 }

\* Number arguments.
Offsets == { Some(0), Some(8), NaN }
Intervals == { Some(1), Some(HeartwormIntervalDays), NaN }

\* String arguments of calculateNextDoseDate.
LastDoseStrings ==
    { DateOnly(2), DateOnly(MakeDay(2025, 1, 15)),
      UtcDateTime(2, 9), LocalDateTime(2, 23), NotADate }

InitCalc ==
    /\ tz \in TimeZones
    /\ now \in CalcClocks
    /\ target = now
    /\ shift = None
    /\ dDay = None
    /\ dArg = None
    /\ dStatus = NULL
    /\ dColor = NULL
    /\ records = EmptyBag
    /\ isSignedIn = TRUE
    /\ error = NULL
    /\ stats = None
    /\ dbDogs = <<>>
    /\ dogs = <<>>
    /\ ret = None
    /\ svc = None
    /\ call = None
    /\ earlier = None
    /\ MigIdle
    /\ CalIdle
    /\ ListIdle

\* A call made at clock reading at: the function, its Date or string
\* argument, its number argument and what came of it.
CallOf(at, fn, arg, num, out) ==
    Some([at |-> at, fn |-> fn, arg |-> arg, num |-> num, out |-> out])

\* calculateAge(birthDate).  The fields of an Invalid Date are NaN, so is the
\* result, and no comparison with NaN holds.
CallCalculateAge ==
    \E birthDate \in BirthDates :
        /\ call' = CallOf(now, "calculateAge", birthDate, NaN,
               IF birthDate = NaN THEN Return(NaN)
               ELSE Return(Some(calculateAge(tz, now, Val(birthDate)))))
        /\ UNCHANGED <<envVars, dateVars, migVars, calVars, listVars,
                       tableVars, hookVars, statsVars,
                       dogVars, earlier>>

\* calculateDDay(targetDate).  The time value of an Invalid Date is NaN, and
\* Math.ceil of NaN is NaN.
CallCalculateDDay ==
    \E targetDate \in TargetDates :
        /\ call' = CallOf(now, "calculateDDay", targetDate, NaN,
               IF targetDate = NaN THEN Return(NaN)
               ELSE Return(Some(calculateDDay(tz, now, Val(targetDate)))))
        /\ UNCHANGED <<envVars, dateVars, migVars, calVars, listVars,
                       tableVars, hookVars, statsVars,
                       dogVars, earlier>>

\* getDDayStatus(dDay).  NaN <= 0, NaN <= 7 and NaN <= 14 are all false.
CallGetDDayStatus ==
    \E d \in Offsets :
        /\ call' = CallOf(now, "getDDayStatus", None, d,
               IF d = NaN THEN Return("safe")
               ELSE Return(getDDayStatus(Val(d))))
        /\ UNCHANGED <<envVars, dateVars, migVars, calVars, listVars,
                       tableVars, hookVars, statsVars,
                       dogVars, earlier>>

\* getDDayColor(dDay).
CallGetDDayColor ==
    \E d \in Offsets :
        /\ call' = CallOf(now, "getDDayColor", None, d,
               IF d = NaN THEN Return("#34C759")
               ELSE Return(getDDayColor(Val(d))))
        /\ UNCHANGED <<envVars, dateVars, migVars, calVars, listVars,
                       tableVars, hookVars, statsVars,
                       dogVars, earlier>>

\* service.calculateNextDoseDate(lastDoseDate, intervalDays)
CallCalculateNextDoseDate ==
    \E lastDoseDate \in LastDoseStrings, intervalDays \in Intervals :
        /\ call' = CallOf(now, "calculateNextDoseDate", lastDoseDate,
               intervalDays,
               calculateNextDoseDate(tz, lastDoseDate, intervalDays))
        /\ UNCHANGED <<envVars, dateVars, migVars, calVars, listVars,
                       tableVars, hookVars, statsVars,
                       dogVars, earlier>>

\* calculateNextHeartworkDate(lastDate)
CallCalculateNextHeartworkDate ==
    \E lastDate \in LastDates :
        /\ call' = CallOf(now, "calculateNextHeartworkDate", Some(lastDate),
               NaN, Return(Some(calculateNextHeartworkDate(tz, lastDate))))
        /\ UNCHANGED <<envVars, dateVars, migVars, calVars, listVars,
                       tableVars, hookVars, statsVars,
                       dogVars, earlier>>

\* The system clock moves on; the latest call becomes an earlier one.
ClockMoves ==
    \E t \in CalcClocks :
        /\ t > now
        /\ now' = t
        /\ earlier' = IF call # None THEN call ELSE earlier
        /\ call' = None
        /\ UNCHANGED <<tz, dateVars, migVars, calVars, listVars,
                       tableVars, hookVars, statsVars, dogVars>>

NextCalc ==
    \/ CallCalculateAge
    \/ CallCalculateDDay
    \/ CallGetDDayStatus
    \/ CallGetDDayColor
    \/ CallCalculateNextDoseDate
    \/ CallCalculateNextHeartworkDate
    \/ ClockMoves

SpecCalc == InitCalc /\ [][NextCalc]_vars

----
\* Claims about the next-dose projection.

\* The latest call is a call of fn.
Called(fn) == call # None /\ Val(call).fn = fn

\* C11: for every last-dose date and every positive intervalDays, the date
\* returned by calculateNextDoseDate is strictly later than the last-dose date
\* and lies exactly intervalDays calendar days after it (2025-01-15 plus 30
\* gives 2025-02-14); calculateNextHeartworkDate likewise lies 30 calendar
\* days after its argument.
C11_ExactlyIntervalDaysLater ==
    /\ (/\ Called("calculateNextDoseDate")
        /\ Val(call).arg.kind = "date"
        /\ Val(call).num # NaN
        /\ Val(Val(call).num) > 0) =>
            /\ ~Val(call).out.threw
            /\ Val(call).out.value > Val(call).arg.day
            /\ Val(call).out.value - Val(call).arg.day = Val(Val(call).num)
            /\ (Val(call).arg.day = MakeDay(2025, 1, 15)
                  /\ Val(call).num = Some(30))
               => Val(call).out.value = MakeDay(2025, 2, 14)
    /\ Called("calculateNextHeartworkDate") =>
            /\ Val(Val(call).out.value) > Val(Val(call).arg)
            /\ CalendarDays(tz, Val(Val(call).arg), Val(Val(call).out.value))
                 = HeartwormIntervalDays

\* The time-of-day a date string carries, None when it carries none.
TimeOfDayOfString(str) ==
    IF str.kind \in {"utc", "local"} THEN Some(str.hour) ELSE None

\* The local wall clock time-of-day of a Date.
LocalTimeOfDay(z, t) == LocalTime(z, t) % HoursPerDay

\* The latest call is calculateNextDoseDate applied to a string that carries
\* a time-of-day and to a number of days.
CalledWithTimeOfDay ==
    /\ Called("calculateNextDoseDate")
    /\ TimeOfDayOfString(Val(call).arg) # None
    /\ Val(call).num # NaN

\* C12 as claimed: the next-dose projection preserves the time-of-day of its
\* input: when the last-dose value carries a time-of-day, the returned value
\* carries the same time-of-day, only the calendar day being advanced.
C12_KeepsTimeOfDay ==
    /\ CalledWithTimeOfDay =>
            /\ ~Val(call).out.threw
            /\ TimeOfDayOfString(DateOnly(Val(call).out.value))
                 = TimeOfDayOfString(Val(call).arg)
    /\ Called("calculateNextHeartworkDate") =>
            LocalTimeOfDay(tz, Val(Val(call).out.value))
                = LocalTimeOfDay(tz, Val(Val(call).arg))

\* No instant shows the local wall clock reading l: a clock change skips it.
Skipped(z, l) ==
    \A t \in (l - 2 * HoursPerDay)..(l + 2 * HoursPerDay) : LocalTime(z, t) # l

\* Instant b shows the wall clock reading of instant a, n local days on, or
\* the reading one hour later when a clock change skips that reading.
SameWallClockLater(z, a, n, b) ==
    LET wanted == LocalTime(z, a) + HoursPerDay * n
    IN  \/ LocalTime(z, b) = wanted
        \/ Skipped(z, wanted) /\ LocalTime(z, b) = wanted + 1

\* C12 as amended: calculateNextHeartworkDate returns the Date that shows the
\* local time-of-day of its input 30 local calendar days on (one hour later
\* when a clock change skips that time).  calculateNextDoseDate advances its
\* input in the same way and returns the UTC calendar date of the result
\* alone, 'YYYY-MM-DD': the returned value carries no time-of-day.
C12_DateOnlyOrLocalTimeOfDay ==
    /\ CalledWithTimeOfDay =>
            /\ ~Val(call).out.threw
            /\ TimeOfDayOfString(DateOnly(Val(call).out.value)) = None
            /\ LET a == Val(NewDate(tz, Val(call).arg))
                   n == Val(Val(call).num)
               IN  \E b \in (a + HoursPerDay * (n - 1))..(a + HoursPerDay * (n + 1)) :
                       /\ SameWallClockLater(tz, a, n, b)
                       /\ Val(call).out.value = ToISODate(b)
    /\ Called("calculateNextHeartworkDate") =>
            SameWallClockLater(tz, Val(Val(call).arg), HeartwormIntervalDays,
                               Val(Val(call).out.value))

\* calculateNextHeartworkDate has carried a time-of-day across a clock change,
\* after calculateNextDoseDate was applied to a string with a time-of-day.
C12_Witness ==
    /\ Called("calculateNextHeartworkDate")
    /\ OffsetAt(tz, Val(Val(call).arg)) # OffsetAt(tz, Val(Val(call).out.value))
    /\ LocalTimeOfDay(tz, Val(Val(call).arg)) = 7
    /\ LocalTimeOfDay(tz, Val(Val(call).out.value)) = 7
    /\ earlier # None
    /\ Val(earlier).fn = "calculateNextDoseDate"
    /\ TimeOfDayOfString(Val(earlier).arg) # None
    /\ ~Val(earlier).out.threw

----
\* Claims about the date functions as a whole.

\* C14: every function of the date module is total over inputs of its declared
\* parameter types: calculateAge, calculateDDay, getDDayStatus, getDDayColor
\* and calculateNextDoseDate return a value and never throw, for any Date, any
\* string passed as lastDoseDate and any number passed as intervalDays or
\* dDay.
C14_NeverThrows ==
    call # None => ~Val(call).out.threw

\* Two calls of the same function with identical arguments, one before and
\* one after the clock moved.
CalledTwice ==
    /\ earlier # None
    /\ call # None
    /\ Val(earlier).fn = Val(call).fn
    /\ Val(earlier).arg = Val(call).arg
    /\ Val(earlier).num = Val(call).num

\* The functions that read the system clock (new Date()).
ClockReaders == {"calculateAge", "calculateDDay"}

\* C15 as claimed: calling calculateAge, calculateDDay, getDDayStatus,
\* getDDayColor or calculateNextDoseDate twice with identical arguments yields
\* identical results at any two points of an execution; no ambient state, the
\* system clock included, changes the result between the calls.
C15_SameArgumentsSameResult ==
    CalledTwice => Val(call).out = Val(earlier).out

\* C15 as amended: on a device whose time zone does not change, getDDayStatus,
\* getDDayColor and calculateNextDoseDate called twice with identical
\* arguments yield identical results at any two points of an execution;
\* calculateAge and calculateDDay read the system clock and yield identical
\* results for identical arguments when both calls are made on the same local
\* calendar day.
C15_SameArgumentsSameDay ==
    (/\ CalledTwice
     /\ Val(call).fn \in ClockReaders
            => LocalDay(tz, Val(earlier).at) = LocalDay(tz, Val(call).at))
    => Val(call).out = Val(earlier).out

\* calculateDDay was called twice with the same valid date at two different
\* times of one local day.
C15_Witness ==
    /\ CalledTwice
    /\ Val(call).fn = "calculateDDay"
    /\ Val(call).arg # NaN
    /\ Val(earlier).at # Val(call).at
    /\ LocalDay(tz, Val(earlier).at) = LocalDay(tz, Val(call).at)
    /\ CalendarDays(tz, now, Val(Val(call).arg)) > 0

\* The latest call is calculateAge applied to a valid Date.
AgeCalled == Called("calculateAge") /\ Val(call).arg # NaN

\* The local month and day of an instant as one number, 100 * month + day.
MonthDay(z, t) == 100 * (getMonth(z, t) + 1) + getDate(z, t)

\* C16: calculateAge returns the reference year minus the birth year,
\* decremented by one exactly when the reference month/day is earlier than the
\* birth month/day (earlier month, or same month and earlier day-of-month),
\* and not decremented on the birthday itself.
C16_AgeByMonthAndDay ==
    AgeCalled =>
        LET birth == Val(Val(call).arg)
            ref == Val(call).at
            years == getFullYear(tz, ref) - getFullYear(tz, birth)
            age == Val(Val(call).out.value)
        IN  /\ MonthDay(tz, ref) < MonthDay(tz, birth) <=> age = years - 1
            /\ MonthDay(tz, ref) >= MonthDay(tz, birth) <=> age = years
            /\ MonthDay(tz, ref) = MonthDay(tz, birth) => age = years

\* calculateAge was called on the fifth birthday.
C16_Witness ==
    /\ AgeCalled
    /\ MonthDay(tz, Val(call).at) = MonthDay(tz, Val(Val(call).arg))
    /\ MonthDay(tz, Val(call).at) = 615
    /\ Val(call).out = Return(Some(5))

\* The instant one year after t: the same local month, day and time of the
\* next year.
PlusOneYear(z, t) ==
    UTCOf(z, HoursPerDay * MakeDay(getFullYear(z, t) + 1, getMonth(z, t) + 1,
                                   getDate(z, t))
               + (LocalTime(z, t) % HoursPerDay))

\* The local day of t is a 29 February.
IsLeapDay(z, t) == MonthDay(z, t) = 229

\* C17: for every birth date b and reference date r not before b, the age is
\* a non-negative integer, and moving the reference date forward by exactly
\* one year increases the age by exactly 1 (outside the Feb 29 leap-day case).
C17_AgeGrowsByOnePerYear ==
    (AgeCalled /\ Val(Val(call).arg) <= Val(call).at) =>
        LET birth == Val(Val(call).arg)
            ref == Val(call).at
            age == Val(Val(call).out.value)
        IN  /\ age \in Nat
            /\ ~IsLeapDay(tz, ref) =>
                  calculateAge(tz, PlusOneYear(tz, ref), birth) = age + 1

\* calculateAge was called on 1 March 2023 for a dog born on 29 February 2020.
C17_Witness ==
    /\ AgeCalled
    /\ IsLeapDay(tz, Val(Val(call).arg))
    /\ MonthDay(tz, Val(call).at) = 301
    /\ Val(call).out = Return(Some(3))
    /\ calculateAge(tz, PlusOneYear(tz, Val(call).at), Val(Val(call).arg)) = 4

----
\* MedicationRecordService.migrateExistingData: calls that run one after the
\* other, and calls that overlap.

MigProcs == {"call1", "call2"}           \* the calls that may be in progress
MigrateDays == {2, 6}                    \* lastHeartworkDate arguments
MigratedNote == "Migrated from existing data"

\* A row of medication_records with its notes column.
NotedRow(dog, name, recorded, hw, notes) ==
    [dog_id |-> dog, medication_name |-> name, recorded_date |-> recorded,
     scheduled_date |-> None, is_heartworm_medication |-> hw, notes |-> notes]

\* What the select of the existence check comes to: the rows are returned,
\* the response carries an error and data: null, or the request throws.
SelectOutcomes == {"answered", "failed", "threw"}

\* .eq('dog_id', dogId).eq('is_heartworm_medication', true)
HeartwormRows(table, dogId) ==
    {r \in DOMAIN table : r.dog_id = dogId /\ r.is_heartworm_medication}

\* const { data: existing } = await ....select('id')....limit(1): the number
\* of rows returned, None for data: null.
SelectExisting(table, dogId, outcome) ==
    IF outcome = "answered"
    THEN Some(IF HeartwormRows(table, dogId) # {} THEN 1 ELSE 0)
    ELSE None

\* existing && existing.length > 0
AlreadyMigrated(existing) == existing # None /\ Val(existing) > 0

NotCalled == [pc |-> "idle"]

\* The tables a migration can meet: empty, a heartworm dose the user has
\* recorded, a dose of another medication.
MigrateTables ==
    { EmptyBag,
      SetToBag({NotedRow("dog1", HeartwormName, 12, TRUE, NULL)}),
      SetToBag({NotedRow("dog1", OtherMedication, 12, FALSE, NULL)}) }

InitMigrate ==
    /\ tz \in TimeZones
    /\ now = HoursPerDay * HookToday + 12
    /\ target = now
    /\ shift = None
    /\ dDay = None
    /\ dArg = None
    /\ dStatus = NULL
    /\ dColor = NULL
    /\ records \in MigrateTables
    /\ isSignedIn = TRUE
    /\ error = NULL
    /\ stats = None
    /\ dbDogs = InitialDogs(tz)
    /\ dogs = <<dbDogs["dog1"], dbDogs["dog2"]>>
    /\ ret = None
    /\ svc = None
    /\ call = None
    /\ earlier = None
    /\ mig = [p \in MigProcs |-> NotCalled]
    /\ CalIdle
    /\ ListIdle

\* migrateExistingData up to the answer of the existence check; a request
\* that throws ends the call in the catch block.
MigrateCheck(p) ==
    \E dog \in DogIds, last \in MigrateDays, outcome \in SelectOutcomes :
        /\ mig[p].pc # "checked"
        /\ mig' = [mig EXCEPT ![p] =
                     IF outcome = "threw"
                     THEN [pc |-> "returned", dog |-> dog, inserted |-> FALSE,
                           result |-> [success |-> FALSE,
                                       error |-> "Failed to migrate existing data"]]
                     ELSE [pc |-> "checked", dog |-> dog, last |-> last,
                           existing |-> SelectExisting(records, dog, outcome)]]
        /\ UNCHANGED <<envVars, dateVars, tableVars, hookVars, statsVars,
                       dogVars, calcVars, calVars, listVars>>

\* migrateExistingData from the answer of the existence check to its return.
MigrateInsert(p) ==
    /\ mig[p].pc = "checked"
    /\ IF AlreadyMigrated(mig[p].existing)
       THEN /\ mig' = [mig EXCEPT ![p] =
                         [pc |-> "returned", dog |-> mig[p].dog,
                          inserted |-> FALSE,
                          result |-> [success |-> TRUE, error |-> NULL]]]
            /\ UNCHANGED records
       ELSE \E outcome \in InsertOutcomes :
              LET migrationRecord ==
                      NotedRow(mig[p].dog, HeartwormName, mig[p].last, TRUE,
                               MigratedNote)
                  res == ServiceRecordResult(outcome, migrationRecord)
              IN  /\ IF res.data # None
                     THEN /\ BagCardinality(records) < MaxRecords
                          /\ records' = InsertRow(records, Val(res.data))
                     ELSE UNCHANGED records
                  /\ mig' = [mig EXCEPT ![p] =
                               [pc |-> "returned", dog |-> mig[p].dog,
                                inserted |-> res.data # None,
                                result |->
                                    IF Truthy(res.error)
                                    THEN [success |-> FALSE, error |-> res.error]
                                    ELSE [success |-> TRUE, error |-> NULL]]]
    /\ UNCHANGED <<envVars, dateVars, hookVars, statsVars, dogVars, calcVars,
                   calVars, listVars>>

\* No call is between its existence check and its return.
NoCallInProgress == \A p \in MigProcs : mig[p].pc # "checked"

\* A call made when every earlier call has returned.
MigrateSequentially(p) == NoCallInProgress /\ MigrateCheck(p)

NextMigrate == \E p \in MigProcs : MigrateSequentially(p) \/ MigrateInsert(p)

SpecMigrate == InitMigrate /\ [][NextMigrate]_vars

NextMigrateConcurrent == \E p \in MigProcs : MigrateCheck(p) \/ MigrateInsert(p)

SpecMigrateConcurrent == InitMigrate /\ [][NextMigrateConcurrent]_vars

----
\* Claims about the migration.

\* The number of migrated records of a dog.
MigratedCount(dog) ==
    BagCardinality(Restrict(records,
        {r \in DOMAIN records : r.dog_id = dog /\ r.notes = MigratedNote}))

\* Call p returns in this step, having been made for a dog that had a
\* heartworm record.
ReturnsForMigratedDog(p) ==
    /\ mig[p].pc = "checked"
    /\ mig'[p].pc = "returned"
    /\ HeartwormRows(records, mig[p].dog) # {}

\* C22: migrateExistingData is idempotent when called sequentially: a call
\* for a dog that already has a record with is_heartworm_medication = true
\* inserts nothing and returns success, so after any number of sequential
\* calls a dog never has more than one migrated record.
C22_SequentialCallsInsertOnce ==
    [][ /\ \A p \in MigProcs :
              ReturnsForMigratedDog(p) =>
                  /\ records' = records
                  /\ mig'[p].result.success
        /\ \A dog \in DogIds : MigratedCount(dog)' <= 1 ]_vars

\* C23: when two migrateExistingData calls for the same dog overlap, their
\* existence checks and inserts interleaved, at most one migrated record is
\* created for the dog.
C23_ConcurrentCallsInsertOnce ==
    \A dog \in DogIds : MigratedCount(dog) <= 1

----
\* components/MedicationCalendar: a day is pressed, the medications chosen in
\* the selector are recorded one after the other.

PressableDays == {HookToday - 1, HookToday, HookToday + 1}   \* days of the month shown
CalendarHours == {1, 22}                 \* UTC hours the screen is used at
MedicationLists ==
    { <<HeartwormName>>, <<HeartwormName, OtherMedication>>,
      <<OtherMedication, HeartwormName>> }
CannotRecordFuture == "medication.record.cannotRecordFuture"
RecordFailed == "medication.record.failed"
RecordSuccess == "medication.record.success"

\* What getMedicationRecordsForDate of the hook comes to.
FetchOutcomes == {"fetched", "failed"}

\* The calendar date the device shows as today.
Today == LocalDay(tz, now)

InitCalendar ==
    /\ tz \in TimeZones
    /\ now \in {HoursPerDay * HookToday + h : h \in CalendarHours}
    /\ target = now
    /\ shift = None
    /\ dDay = None
    /\ dArg = None
    /\ dStatus = NULL
    /\ dColor = NULL
    /\ records = EmptyBag
    /\ isSignedIn \in BOOLEAN
    /\ error = NULL
    /\ stats = None
    /\ dbDogs = InitialDogs(tz)
    /\ dogs = <<dbDogs["dog1"], dbDogs["dog2"]>>
    /\ ret = None
    /\ svc = None
    /\ call = None
    /\ earlier = None
    /\ MigIdle
    /\ \E dog \in DogIds :
          cal = [dog |-> dog, selected |-> None,
                 showMedicationSelector |-> FALSE,
                 selectedDateForRecord |-> None, alert |-> NULL,
                 medications |-> <<>>, date |-> None,
                 before |-> [records |-> records, dbDogs |-> dbDogs],
                 result |-> None]
    /\ ListIdle

\* clickedDate > today, with today = new Date() and
\* clickedDate = new Date(selectedDate).
IsFutureDate(z, clock, selectedDate) ==
    Val(NewDate(z, DateOnly(selectedDate))) > clock

\* handleDayPress(day)
HandleDayPress ==
    \E day \in PressableDays, fetch \in FetchOutcomes :
        /\ IF IsFutureDate(tz, now, day)
           THEN /\ cal' = [cal EXCEPT !.selected = Some(day),
                                      !.alert = CannotRecordFuture]
                /\ UNCHANGED error
           ELSE /\ cal' = [cal EXCEPT !.selected = Some(day),
                                      !.selectedDateForRecord = Some(day),
                                      !.showMedicationSelector = TRUE]
                /\ error' = IF ~isSignedIn THEN error
                            ELSE IF fetch = "fetched" THEN NULL
                            ELSE "JWT expired"
        /\ UNCHANGED <<envVars, dateVars, tableVars, isSignedIn, statsVars,
                       dogVars, calcVars, migVars, listVars>>

\* handleRecordMedication(medications, ...) up to its first recordMedication
\* call: the handler keeps the selectedDateForRecord of the render it was
\* created in.
SubmitMedications ==
    \E medications \in MedicationLists :
        /\ cal.showMedicationSelector
        /\ cal.medications = <<>>
        /\ cal' = [cal EXCEPT !.medications = medications,
                              !.date = cal.selectedDateForRecord,
                              !.before = [records |-> records,
                                          dbDogs |-> dbDogs],
                              !.result = None]
        /\ UNCHANGED <<envVars, dateVars, tableVars, hookVars, statsVars,
                       dogVars, calcVars, migVars, listVars>>

\* One turn of the loop of handleRecordMedication: the next medication is
\* recorded; the loop breaks on the first null result, and after the last
\* medication the selector is closed.
RecordNextMedication ==
    \E outcome \in InsertOutcomes, updated \in BOOLEAN :
        /\ cal.medications # <<>>
        /\ HookRecordMedication(cal.dog, Head(cal.medications), Val(cal.date),
                                outcome, updated)
        /\ cal' = IF ret' = None
                  THEN [cal EXCEPT !.medications = <<>>,
                                   !.result = Some(FALSE),
                                   !.alert = RecordFailed]
                  ELSE IF Tail(cal.medications) = <<>>
                  THEN [cal EXCEPT !.medications = <<>>,
                                   !.result = Some(TRUE),
                                   !.alert = RecordSuccess,
                                   !.showMedicationSelector = FALSE,
                                   !.selectedDateForRecord = None]
                  ELSE [cal EXCEPT !.medications = Tail(cal.medications)]
        /\ UNCHANGED <<envVars, dateVars, isSignedIn, statsVars, calcVars,
                       migVars, listVars>>

NextCalendar == HandleDayPress \/ SubmitMedications \/ RecordNextMedication

SpecCalendar == InitCalendar /\ [][NextCalendar]_vars

----
\* Claims about the calendar.

\* C24: recording several selected medications for one date is
\* all-or-nothing: when handleRecordMedication has returned false, no
\* medication record of that submission has been persisted and no dog's
\* next-due date has been changed by it.
C24_FailedSubmissionStoresNothing ==
    cal.result = Some(FALSE) =>
        /\ records = cal.before.records
        /\ dbDogs = cal.before.dbDogs

\* C25: a dose can never be recorded for a future date through the calendar:
\* selectedDateForRecord is never a day later than today, and every record
\* created by handleRecordMedication has a recorded_date that is today or
\* earlier.
C25_NoFutureDose ==
    /\ cal.selectedDateForRecord # None =>
          Val(cal.selectedDateForRecord) <= Today
    /\ \A r \in DOMAIN records : r.recorded_date <= Today

----
\* useSupabaseDogs: the initial load, createDog and the real-time
\* subscription.

\* The ids the database hands out, in the order it hands them out.
DogOrder == <<"dog1", "dog2">>

\* DatabaseService.getAll: the user's rows, the newest first.
GetAllDogs(table) ==
    LET rows[i \in 0..Len(DogOrder)] ==
            IF i = 0 THEN <<>>
            ELSE IF DogOrder[i] \in DOMAIN table
            THEN <<table[DogOrder[i]]>> \o rows[i - 1]
            ELSE rows[i - 1]
    IN  rows[Len(DogOrder)]

\* The id of the next row inserted into table dogs.
NextDogId(table) ==
    DogOrder[CHOOSE i \in 1..Len(DogOrder) :
                /\ DogOrder[i] \notin DOMAIN table
                /\ \A j \in 1..(i - 1) : DogOrder[j] \in DOMAIN table]

\* What a request to the backend comes to.
LoadOutcomes == {"loaded", "failed"}
CreateOutcomes == {"inserted", "failed"}

\* The hook is mounted; the user has no dog or one dog.
InitDogs ==
    /\ tz \in TimeZones
    /\ now = HoursPerDay * HookToday + 12
    /\ target = now
    /\ shift = None
    /\ dDay = None
    /\ dArg = None
    /\ dStatus = NULL
    /\ dColor = NULL
    /\ records = EmptyBag
    /\ isSignedIn \in BOOLEAN
    /\ error = NULL
    /\ stats = None
    /\ dbDogs \in { [id \in S |-> FormDog(tz, id, FirstLastDay)] :
                      S \in {{}, {DogOrder[1]}} }
    /\ dogs = <<>>
    /\ ret = None
    /\ svc = None
    /\ call = None
    /\ earlier = None
    /\ MigIdle
    /\ CalIdle
    /\ loading = TRUE
    /\ effect = "mounted"
    /\ creating = None
    /\ events = 0
    /\ fetched = <<>>

\* LoadingAfterLoad that leaves loading set when the load has failed.
LoadingAfterLoad_OnlyOnSuccess(outcome) == outcome # "loaded"

\* finally { setLoading(false); } of initializeData.
LoadingAfterLoad(outcome) == FALSE

\* The effect 'Initialize data when user signs in' runs after the first
\* render, up to the await of getAllDogs.
EffectRuns ==
    /\ effect = "mounted"
    /\ IF ~isSignedIn
       THEN /\ loading' = FALSE
            /\ effect' = "done"
            /\ UNCHANGED error
       ELSE /\ loading' = TRUE
            /\ effect' = "loading"
            /\ error' = NULL
    /\ UNCHANGED <<envVars, dateVars, tableVars, isSignedIn, statsVars,
                   dogVars, calcVars, migVars, calVars, creating, events,
                   fetched>>

\* getAllDogs returns or throws: the rest of loadDogs and of initializeData.
LoadDogsReturns ==
    \E outcome \in LoadOutcomes :
        /\ effect = "loading"
        /\ IF outcome = "loaded"
           THEN /\ dogs' = GetAllDogs(dbDogs)
                /\ UNCHANGED error
           ELSE /\ error' = "Failed to load dogs"
                /\ UNCHANGED dogs
        /\ loading' = LoadingAfterLoad(outcome)
        /\ effect' = "done"
        /\ UNCHANGED <<envVars, dateVars, tableVars, isSignedIn, statsVars,
                       dbDogs, ret, svc, calcVars, migVars, calVars, creating,
                       events, fetched>>

\* createDog(dogData) up to the answer of the insert; the insert makes the
\* database send a real-time payload to the subscription.
CreateDog ==
    \E outcome \in CreateOutcomes :
        /\ creating = None
        /\ IF ~isSignedIn
           THEN /\ error' = "User must be signed in to create dogs"
                /\ UNCHANGED <<dbDogs, creating, events>>
           ELSE IF outcome = "inserted"
           THEN /\ DOMAIN dbDogs # DogIds
                /\ LET id == NextDogId(dbDogs)
                       newDog == FormDog(tz, id, FirstLastDay)
                   IN  /\ dbDogs' = [i \in DOMAIN dbDogs \cup {id} |->
                                       IF i = id THEN newDog ELSE dbDogs[i]]
                       /\ creating' = Some(newDog)
                /\ events' = events + 1
                /\ error' = NULL
           ELSE /\ error' = "Failed to create dog"
                /\ UNCHANGED <<dbDogs, creating, events>>
        /\ UNCHANGED <<envVars, dateVars, tableVars, isSignedIn, statsVars,
                       dogs, ret, svc, calcVars, migVars, calVars, loading,
                       effect, fetched>>

\* The insert of createDog has been answered: the optimistic update
\* setDogs(prev => [...prev, newDog]).
CreateDogReturns ==
    /\ creating # None
    /\ dogs' = Append(dogs, Val(creating))
    /\ creating' = None
    /\ UNCHANGED <<envVars, dateVars, tableVars, hookVars, statsVars, dbDogs,
                   ret, svc, calcVars, migVars, calVars, loading, effect,
                   events, fetched>>

\* SupabaseDogService.subscribeToChanges: a payload arrives and all dogs are
\* fetched again; when the fetch throws the callback is not called.
RealtimeRefetch ==
    \E outcome \in LoadOutcomes :
        /\ events > 0
        /\ events' = events - 1
        /\ fetched' = IF outcome = "loaded"
                      THEN Append(fetched, GetAllDogs(dbDogs))
                      ELSE fetched
        /\ UNCHANGED <<envVars, dateVars, tableVars, hookVars, statsVars,
                       dogVars, calcVars, migVars, calVars, loading, effect,
                       creating>>

\* The callback of the subscription: setDogs(updatedDogs).
RealtimeCallback ==
    /\ fetched # <<>>
    /\ dogs' = Head(fetched)
    /\ fetched' = Tail(fetched)
    /\ UNCHANGED <<envVars, dateVars, tableVars, hookVars, statsVars, dbDogs,
                   ret, svc, calcVars, migVars, calVars, loading, effect,
                   creating, events>>

NextDogs ==
    \/ EffectRuns
    \/ LoadDogsReturns
    \/ CreateDog
    \/ CreateDogReturns
    \/ RealtimeRefetch
    \/ RealtimeCallback

SpecDogs == InitDogs /\ [][NextDogs]_vars

\* React runs the effect after the first render, and the backend call of the
\* load returns or throws.
SpecDogsLive ==
    /\ SpecDogs
    /\ WF_vars(EffectRuns)
    /\ WF_vars(LoadDogsReturns)

----
\* Claims about the list of dogs.

\* C26: the local dogs list never contains two entries with the same id,
\* under any interleaving of createDog's optimistic append with the
\* real-time callback that replaces the list with a fresh getAllDogs result.
C26_NoDuplicateDog ==
    \A i, j \in 1..Len(dogs) : dogs[i].id = dogs[j].id => i = j

\* C27: once the initial load has started, loading eventually becomes false,
\* whether the user is signed out, the load succeeds or the load fails: the
\* hook never stays in loading = true forever.
C27_LoadingEnds == (loading = TRUE) ~> (loading = FALSE)

\* The load of a signed-in user has failed and loading is false.
C27_Witness ==
    /\ isSignedIn
    /\ effect = "done"
    /\ error = "Failed to load dogs"
    /\ loading = FALSE

====
